---- MODULE Spec2Model ----
(***************************************************************************)
(* Model of chow_test/__init__.py: the Chow test pipeline                  *)
(*   chow_test -> _calculate_rss (pooled) -> _data_preparation             *)
(*             -> _calculate_rss (x2) -> _calculate_chow_statistic         *)
(*             -> _determine_p_value_significance.                         *)
(*                                                                         *)
(* Real numbers are exact rationals <<numerator, denominator>> with a      *)
(* positive denominator, in lowest terms.  X has one column (a Series or a *)
(* one-column DataFrame), so an ordinary-least-squares fit with intercept  *)
(* has the closed form used in _calculate_rss below.  The F-distribution   *)
(* (scipy.stats.f.cdf) is a collaborator: its answer is fixed where scipy  *)
(* fixes it (nan for a non-positive degree of freedom, 0 for a statistic   *)
(* <= 0) and is any probability of PGrid otherwise.  A probability is a    *)
(* binary float m/1024, held as m, so that 1 - cdf is computed without     *)
(* rounding as the code computes it; a significance level is the float     *)
(* literal of the call, held in thousandths (0.01 is 10).                  *)
(***************************************************************************)
EXTENDS Integers, Sequences, FiniteSets

VARIABLES
    pc,             \* position in the running call
    X_arg,          \* type of the X_series argument as passed
    X_kind,         \* type of the local X_series (rebound on line 148)
    y_kind,         \* type of the y_series argument
    X_data,         \* the column of X, in row order
    y_data,         \* the values of y, in row order
    last_index,     \* [isint, val]
    first_index,    \* [isint, val]
    significance,   \* [isfloat, val]  (val in thousandths)
    verbose,        \* the verbose argument of _determine_p_value_significance
    rss_pooled, first_rss, second_rss,   \* rationals
    X_one, X_two, y_one, y_two,          \* the two subsets
    k, n_one, n_two,
    chow_statistic, \* the statistic passed to _determine_p_value_significance
    chow_value,     \* rational
    f_cdf,          \* what f.cdf answered: [kind, val]
    p_value,        \* [kind, val]
    printed,        \* the verdict lines written to standard output
    err,            \* the exception raised, "" when none
    fits, splits, stats, fevals   \* work done so far, per kind

vars == <<pc, X_arg, X_kind, y_kind, X_data, y_data, last_index, first_index,
          significance, verbose, rss_pooled, first_rss, second_rss,
          X_one, X_two, y_one, y_two, k, n_one, n_two, chow_statistic,
          chow_value, f_cdf, p_value, printed, err, fits, splits, stats,
          fevals>>

----------------------------------------------------------------------------
(* Bounds of the model *)

\* Datasets are the first 1..MaxLen rows of each pattern, and the example.
MaxLen == 6
\* Integer split indices range over -MaxOver .. N + MaxOver.
MaxOver == 1
\* Direct calls of _calculate_chow_statistic: rss values 0..MaxRss,
\* subset sizes 0..MaxN, k in 1..MaxK.
MaxRss == 3
MaxN == 4
MaxK == 2

----------------------------------------------------------------------------
(* Exact rational arithmetic *)

Abs(a) == IF a < 0 THEN -a ELSE a

RECURSIVE GCD(_, _)
GCD(a, b) == IF b = 0 THEN a ELSE GCD(b, a % b)

\* n/d in lowest terms with a positive denominator (d # 0).
Rat(n, d) ==
    LET g == GCD(Abs(n), Abs(d))
        s == IF d < 0 THEN -1 ELSE 1
    IN  <<s * (n \div g), s * (d \div g)>>

RInt(n) == <<n, 1>>
\* Sums and products cancel common factors before they multiply.
RAdd(a, b) ==
    LET g == GCD(a[2], b[2])
    IN  Rat(a[1] * (b[2] \div g) + b[1] * (a[2] \div g), (a[2] \div g) * b[2])
RNeg(a) == <<0 - a[1], a[2]>>
RSub(a, b) == RAdd(a, RNeg(b))
RMul(a, b) ==
    LET g == GCD(Abs(a[1]), b[2])
        h == GCD(Abs(b[1]), a[2])
    IN  Rat((a[1] \div g) * (b[1] \div h), (a[2] \div h) * (b[2] \div g))
\* 1/a, for a # 0.
RInv(a) == IF a[1] < 0 THEN <<0 - a[2], 0 - a[1]>> ELSE <<a[2], a[1]>>
RDivInt(a, n) == RMul(a, RInv(RInt(n)))
RDiv(a, b) == RMul(a, RInv(b))
RIsZero(a) == a[1] = 0
RNonNeg(a) == a[1] >= 0
RPos(a) == a[1] > 0

\* A value not computed yet.
Unset == <<0, 0>>

RECURSIVE Sum(_)
Sum(s) == IF s = <<>> THEN 0 ELSE Head(s) + Sum(Tail(s))

Prod(s, t) == [i \in 1..Len(s) |-> s[i] * t[i]]

----------------------------------------------------------------------------
(* Python slicing, as pandas applies it to a DataFrame or a Series with    *)
(* [: stop] and [start :]: positional, the stop excluded, a negative bound *)
(* counted from the end, a bound outside the rows clamped.                 *)

Clamp(i, n) ==
    LET j == IF i < 0 THEN i + n ELSE i
    IN  IF j < 0 THEN 0 ELSE IF j > n THEN n ELSE j

\* s[: stop]
SliceTo(s, stop) == SubSeq(s, 1, Clamp(stop, Len(s)))

\* s[start :]
SliceFrom(s, start) == SubSeq(s, Clamp(start, Len(s)) + 1, Len(s))

----------------------------------------------------------------------------
(* _calculate_rss (lines 6-29) *)

\* Lr().fit(X, y) followed by predict(X) and the sum of squared residuals,
\* for one predictor and an intercept.  With n rows,
\*   A = n*Sxx - Sx^2,  B = n*Sxy - Sx*Sy,  C = n*Syy - Sy^2,
\* the least-squares line leaves  (A*C - B^2) / (n*A);  when every x is the
\* same (A = 0) the fitted slope is 0 and the intercept the mean of y,
\* which leaves C / n.
OlsRss(X, y) ==
    LET n == Len(X)
        A == n * Sum(Prod(X, X)) - Sum(X) * Sum(X)
        B == n * Sum(Prod(X, y)) - Sum(X) * Sum(y)
        C == n * Sum(Prod(y, y)) - Sum(y) * Sum(y)
    IN  IF A = 0 THEN Rat(C, n) ELSE Rat(A * C - B * B, n * A)

\* Whether the call gets as far as Lr().fit (lines 18-21 passed).
RssReachesFit(Xk, yk) == Xk = "DataFrame" /\ yk = "Series"

_calculate_rss(Xk, X, yk, y) ==
    IF Xk # "DataFrame" THEN [err |-> "TypeError", rss |-> Unset]
    ELSE IF yk # "Series" THEN [err |-> "TypeError", rss |-> Unset]
    \* sklearn refuses to fit an array with 0 samples
    ELSE IF Len(X) = 0 THEN [err |-> "ValueError", rss |-> Unset]
    ELSE [err |-> "", rss |-> OlsRss(X, y)]

----------------------------------------------------------------------------
(* _data_preparation (lines 32-57) *)

\* Lines 53 and 55: the rows before the split.
BeforeSplit(s, last) == SliceTo(s, last)

\* Lines 54 and 56: the rows after the split.
AfterSplit(s, first) == SliceFrom(s, first)

_data_preparation(Xk, X, yk, y, last, first) ==
    LET none == [err |-> "TypeError", X_one |-> <<>>, X_two |-> <<>>,
                 y_one |-> <<>>, y_two |-> <<>>]
    IN  IF yk # "Series" THEN none
        ELSE IF Xk \notin {"Series", "DataFrame"} THEN none
        ELSE IF ~(last.isint /\ first.isint) THEN none
        ELSE [err |-> "",
              X_one |-> BeforeSplit(X, last.val),
              X_two |-> AfterSplit(X, first.val),
              y_one |-> BeforeSplit(y, last.val),
              y_two |-> AfterSplit(y, first.val)]

----------------------------------------------------------------------------
(* _calculate_chow_statistic (lines 60-85) *)

\* The subtraction of line 80 the wrong way round.
Numerator_Reversed(pooled, r1, r2, kv) ==
    RDivInt(RSub(RAdd(r1, r2), pooled), kv)

\* Line 80.
Numerator(pooled, r1, r2, kv) == RDivInt(RSub(pooled, RAdd(r1, r2)), kv)

\* Line 81, for a divisor n1 + n2 - 2k that is not 0.
Denominator(r1, r2, kv, n1, n2) == RDivInt(RAdd(r1, r2), n1 + n2 - 2 * kv)

\* The except clause letting the ZeroDivisionError through.
OnZeroDenominator_Reraised == [err |-> "ZeroDivisionError", value |-> Unset]

\* Lines 84-85: what a ZeroDivisionError inside the try block turns into.
OnZeroDenominator == [err |-> "", value |-> RInt(0)]

_calculate_chow_statistic(pooled, r1, r2, kv, n1, n2) ==
    \* line 80 divides by k_value
    IF kv = 0 THEN [err |-> "ZeroDivisionError", value |-> Unset]
    \* line 81 divides by n_one + n_two - 2k, before the try block
    ELSE IF n1 + n2 - 2 * kv = 0
         THEN [err |-> "ZeroDivisionError", value |-> Unset]
    ELSE IF RIsZero(Denominator(r1, r2, kv, n1, n2)) THEN OnZeroDenominator
    ELSE [err |-> "",
          value |-> RDiv(Numerator(pooled, r1, r2, kv),
                         Denominator(r1, r2, kv, n1, n2))]

----------------------------------------------------------------------------
(* _determine_p_value_significance (lines 88-116) *)

NaN == [kind |-> "nan", val |-> 0]
Num(v) == [kind |-> "num", val |-> v]
NoValue == [kind |-> "unset", val |-> 0]

\* Probabilities are floats m / ProbUnit, held as m: each is a float64, and
\* so is 1 minus it.
ProbUnit == 1024
\* Significance levels are held in thousandths.
LevelUnit == 1000

\* Probabilities f.cdf may answer for a positive statistic (m of m/1024):
\* 0, 1/2, 1, and the floats whose complements lie next to 0.1 (103, 102),
\* 0.05 (52, 51) and 0.01 (11, 10) on either side.
PGrid == {0, 512, 921, 922, 972, 973, 1013, 1014, 1024}

\* f.cdf(statistic, dfn, dfd) of scipy.stats (line 109): nan when a degree of
\* freedom is not positive, 0 at or below the lower end of the support,
\* a probability otherwise.
FCdf(statistic, dfn, dfd) ==
    IF dfn <= 0 \/ dfd <= 0 THEN {NaN}
    ELSE IF ~RPos(statistic) THEN {Num(0)}
    ELSE {Num(v) : v \in PGrid}

\* Line 109: float(1 - cdf); nan stays nan.
OneMinus(c) == IF c.kind = "nan" THEN NaN ELSE Num(ProbUnit - c.val)

\* Python's <= and > on floats: both are False when an operand is nan.
\* p is p.val / 1024 and the level is the float nearest level / 1000; no
\* m / 1024 lies between level / 1000 and that float, so the comparison of
\* the two fractions is the comparison of the two floats.
LessEq(p, level) == p.kind = "num" /\ p.val * LevelUnit <= level * ProbUnit
Greater(p, level) == p.kind = "num" /\ p.val * LevelUnit > level * ProbUnit

RejectLine == "Reject the null hypothesis"
FailLine == "Fail to reject the null hypothesis"

\* Lines 110-113.
Verdict(p, level, verb) ==
    IF LessEq(p, level) /\ verb THEN <<RejectLine>>
    ELSE IF Greater(p, level) /\ verb THEN <<FailLine>>
    ELSE <<>>

\* cdf is what f.cdf answered on line 109.
_determine_p_value_significance(statistic, n1, n2, kv, level, verb, cdf) ==
    [err |-> "",
     chow_statistic |-> statistic,
     p_value |-> OneMinus(cdf),
     printed |-> Verdict(OneMinus(cdf), level, verb)]

----------------------------------------------------------------------------
(* chow_test (lines 119-158) *)

\* Line 144, in thousandths.
AcceptedSignificance == {10, 50, 100}

\* Line 144 left out.
ValidSignificance_AcceptsAny(s) == TRUE

ValidSignificance(s) == s.val \in AcceptedSignificance

\* Lines 136-145: the exception raised, "" when the arguments pass.
ValidationError(Xk, yk, last, first, sig) ==
    IF yk # "Series" THEN "TypeError"
    ELSE IF Xk \notin {"Series", "DataFrame"} THEN "TypeError"
    ELSE IF ~(last.isint /\ first.isint) THEN "TypeError"
    ELSE IF ~sig.isfloat THEN "TypeError"
    ELSE IF ~ValidSignificance(sig) THEN "KeyError"
    ELSE ""

\* Lines 147-148 left out.
Normalized_Skipped(Xk) == Xk

\* Lines 147-148.
Normalized(Xk) == IF Xk = "Series" THEN "DataFrame" ELSE Xk

\* X_series.shape[1] on line 153: the table has the one column of X.
Columns == 1

\* Line 153.
KValue == Columns + 1

\* The whole call as one function of its arguments, up to the F-distribution:
\* the exception raised, or the statistic and the degrees of freedom handed
\* to f.cdf.
chow_test(Xk, X, yk, y, last, first, sig) ==
    LET verr == ValidationError(Xk, yk, last, first, sig)
        Xn == Normalized(Xk)
        pooled == _calculate_rss(Xn, X, yk, y)
        prep == _data_preparation(Xn, X, yk, y, last, first)
        one == _calculate_rss(Xn, prep.X_one, yk, prep.y_one)
        two == _calculate_rss(Xn, prep.X_two, yk, prep.y_two)
        n1 == Len(prep.X_one)
        n2 == Len(prep.X_two)
        chow == _calculate_chow_statistic(pooled.rss, one.rss, two.rss,
                                          KValue, n1, n2)
        raised(e) == [err |-> e, chow_value |-> Unset, k |-> 0,
                      n_one |-> 0, n_two |-> 0]
    IN  IF verr # "" THEN raised(verr)
        ELSE IF pooled.err # "" THEN raised(pooled.err)
        ELSE IF prep.err # "" THEN raised(prep.err)
        ELSE IF one.err # "" THEN raised(one.err)
        ELSE IF two.err # "" THEN raised(two.err)
        ELSE IF chow.err # "" THEN raised(chow.err)
        ELSE [err |-> "", chow_value |-> chow.value, k |-> KValue,
              n_one |-> n1, n_two |-> n2]

----------------------------------------------------------------------------
(* Inputs *)

\* Columns B and A of the example (lines 162-164), as <<x, y>> rows.
ExamplePattern == <<<<10, 11>>, <<15, 11>>, <<14, 12>>>>
\* The example has 15 rows (lines 162-164).
ExampleRows == 15
\* The example call (line 166): chow_test(B, A, 8, 9, 0.01).
ExampleLast == 8
ExampleFirst == 9
ExampleSignificance == 10

\* Rows on one line: every subset is fitted without residual.
LinePattern == <<<<1, 3>>, <<2, 5>>, <<3, 7>>>>
\* A relation that changes after three rows.
BreakPattern == <<<<0, 0>>, <<1, 1>>, <<2, 2>>, <<0, 2>>, <<1, 1>>, <<2, 0>>>>
\* Repeated x values with different y.
StepPattern == <<<<1, 0>>, <<1, 2>>, <<2, 1>>, <<3, 5>>>>

Patterns == {ExamplePattern, LinePattern, BreakPattern, StepPattern}

\* The first n rows of a pattern repeated.
Prefix(pat, n) == [i \in 1..n |-> pat[((i - 1) % Len(pat)) + 1]]

ColumnX(rows) == [i \in 1..Len(rows) |-> rows[i][1]]
ColumnY(rows) == [i \in 1..Len(rows) |-> rows[i][2]]

ExampleData == Prefix(ExamplePattern, ExampleRows)

Datasets == {Prefix(pat, n) : pat \in Patterns, n \in 1..MaxLen}
            \cup {ExampleData}

IntArg(v) == [isint |-> TRUE, val |-> v]
NotAnInt == [isint |-> FALSE, val |-> 0]
IndexArgs(n) == {IntArg(v) : v \in (0 - MaxOver)..(n + MaxOver)}
                \cup {NotAnInt}

FloatArg(v) == [isfloat |-> TRUE, val |-> v]
NotAFloat == [isfloat |-> FALSE, val |-> 0]
SignificanceArgs == {FloatArg(v) : v \in AcceptedSignificance \cup {500}}
                    \cup {NotAFloat}

XKinds == {"Series", "DataFrame", "ndarray"}
yKinds == {"Series", "ndarray"}

\* Nothing returned, raised, printed or done yet.
NoResult ==
    /\ chow_value = Unset /\ f_cdf = NoValue /\ p_value = NoValue
    /\ printed = <<>> /\ err = ""
    /\ fits = 0 /\ splits = 0 /\ stats = 0 /\ fevals = 0

NoSubsets == X_one = <<>> /\ X_two = <<>> /\ y_one = <<>> /\ y_two = <<>>

\* Everything a call of chow_test has not computed yet.
Fresh ==
    /\ rss_pooled = Unset /\ first_rss = Unset /\ second_rss = Unset
    /\ chow_statistic = Unset
    /\ NoSubsets
    /\ NoResult

----------------------------------------------------------------------------
(* A call of chow_test, statement by statement *)

Init ==
    /\ pc = "validate"
    /\ X_arg \in XKinds
    /\ X_kind = X_arg
    /\ y_kind \in yKinds
    /\ \E rows \in Datasets :
          /\ X_data = ColumnX(rows)
          /\ y_data = ColumnY(rows)
          /\ last_index \in IndexArgs(Len(rows))
          /\ first_index \in IndexArgs(Len(rows))
    /\ significance \in SignificanceArgs
    /\ verbose = TRUE
    /\ k = 0 /\ n_one = 0 /\ n_two = 0
    /\ Fresh

Raise(e) == pc' = "raised" /\ err' = e

\* Lines 136-145.
Validate ==
    /\ pc = "validate"
    /\ LET e == ValidationError(X_kind, y_kind, last_index, first_index,
                                significance)
       IN  IF e # "" THEN Raise(e) ELSE pc' = "normalize" /\ err' = err
    /\ UNCHANGED <<X_arg, X_kind, y_kind, X_data, y_data, last_index,
                   first_index, significance, verbose, chow_statistic,
                   rss_pooled, first_rss, second_rss, X_one, X_two, y_one,
                   y_two, k, n_one, n_two, chow_value, f_cdf, p_value,
                   printed, fits, splits, stats, fevals>>

\* Lines 147-148.
Normalize ==
    /\ pc = "normalize"
    /\ X_kind' = Normalized(X_kind)
    /\ pc' = "pooled"
    /\ UNCHANGED <<X_arg, y_kind, X_data, y_data, last_index, first_index,
                   significance, verbose, chow_statistic, rss_pooled,
                   first_rss, second_rss, X_one, X_two, y_one, y_two, k,
                   n_one, n_two, chow_value, f_cdf, p_value, printed, err,
                   fits, splits, stats, fevals>>

FitsAfter(Xk, yk) == IF RssReachesFit(Xk, yk) THEN fits + 1 ELSE fits

\* Line 149.
PooledRss ==
    /\ pc = "pooled"
    /\ LET r == _calculate_rss(X_kind, X_data, y_kind, y_data)
       IN  /\ fits' = FitsAfter(X_kind, y_kind)
           /\ IF r.err # "" THEN Raise(r.err) /\ rss_pooled' = rss_pooled
              ELSE pc' = "split" /\ err' = err /\ rss_pooled' = r.rss
    /\ UNCHANGED <<X_arg, X_kind, y_kind, X_data, y_data, last_index,
                   first_index, significance, verbose, chow_statistic,
                   first_rss, second_rss, X_one, X_two, y_one, y_two, k,
                   n_one, n_two, chow_value, f_cdf, p_value, printed, splits,
                   stats, fevals>>

\* Line 150.
DataPreparation ==
    /\ pc = "split"
    /\ LET r == _data_preparation(X_kind, X_data, y_kind, y_data,
                                  last_index, first_index)
       IN  IF r.err # ""
           THEN Raise(r.err) /\ UNCHANGED <<X_one, X_two, y_one, y_two, splits>>
           ELSE /\ pc' = "first" /\ err' = err
                /\ X_one' = r.X_one /\ X_two' = r.X_two
                /\ y_one' = r.y_one /\ y_two' = r.y_two
                /\ splits' = splits + 1
    /\ UNCHANGED <<X_arg, X_kind, y_kind, X_data, y_data, last_index,
                   first_index, significance, verbose, chow_statistic,
                   rss_pooled, first_rss, second_rss, k, n_one, n_two,
                   chow_value, f_cdf, p_value, printed, fits, stats, fevals>>

\* Line 151.
FirstRss ==
    /\ pc = "first"
    /\ LET r == _calculate_rss(X_kind, X_one, y_kind, y_one)
       IN  /\ fits' = FitsAfter(X_kind, y_kind)
           /\ IF r.err # "" THEN Raise(r.err) /\ first_rss' = first_rss
              ELSE pc' = "second" /\ err' = err /\ first_rss' = r.rss
    /\ UNCHANGED <<X_arg, X_kind, y_kind, X_data, y_data, last_index,
                   first_index, significance, verbose, chow_statistic,
                   rss_pooled, second_rss, X_one, X_two, y_one, y_two, k,
                   n_one, n_two, chow_value, f_cdf, p_value, printed, splits,
                   stats, fevals>>

\* Line 152.
SecondRss ==
    /\ pc = "second"
    /\ LET r == _calculate_rss(X_kind, X_two, y_kind, y_two)
       IN  /\ fits' = FitsAfter(X_kind, y_kind)
           /\ IF r.err # "" THEN Raise(r.err) /\ second_rss' = second_rss
              ELSE pc' = "statistic" /\ err' = err /\ second_rss' = r.rss
    /\ UNCHANGED <<X_arg, X_kind, y_kind, X_data, y_data, last_index,
                   first_index, significance, verbose, chow_statistic,
                   rss_pooled, first_rss, X_one, X_two, y_one, y_two, k,
                   n_one, n_two, chow_value, f_cdf, p_value, printed, splits,
                   stats, fevals>>

\* Lines 153-156.
ChowStatistic ==
    /\ pc = "statistic"
    /\ k' = KValue
    /\ n_one' = Len(X_one)
    /\ n_two' = Len(X_two)
    /\ stats' = stats + 1
    /\ LET r == _calculate_chow_statistic(rss_pooled, first_rss, second_rss,
                                          KValue, Len(X_one), Len(X_two))
       IN  IF r.err # "" THEN Raise(r.err) /\ chow_value' = chow_value
           ELSE pc' = "p_value" /\ err' = err /\ chow_value' = r.value
    /\ UNCHANGED <<X_arg, X_kind, y_kind, X_data, y_data, last_index,
                   first_index, significance, verbose, chow_statistic,
                   rss_pooled, first_rss, second_rss, X_one, X_two, y_one,
                   y_two, f_cdf, p_value, printed, fits, splits, fevals>>

\* Lines 157-158.
PValue ==
    /\ pc = "p_value"
    /\ \E c \in FCdf(chow_value, k, n_one + n_two - 2 * k) :
          LET r == _determine_p_value_significance(chow_value, n_one, n_two,
                       k, significance.val, verbose, c)
          IN  /\ f_cdf' = c
              /\ chow_statistic' = chow_value
              /\ chow_value' = r.chow_statistic
              /\ p_value' = r.p_value
              /\ printed' = r.printed
    /\ fevals' = fevals + 1
    /\ pc' = "returned"
    /\ UNCHANGED <<X_arg, X_kind, y_kind, X_data, y_data, last_index,
                   first_index, significance, verbose, rss_pooled, first_rss,
                   second_rss, X_one, X_two, y_one, y_two, k, n_one, n_two,
                   err, fits, splits, stats>>

Next ==
    \/ Validate
    \/ Normalize
    \/ PooledRss
    \/ DataPreparation
    \/ FirstRss
    \/ SecondRss
    \/ ChowStatistic
    \/ PValue

Spec == Init /\ [][Next]_vars

----------------------------------------------------------------------------
(* Direct calls of the two numeric helpers, over ranges of arguments *)

\* Arguments no helper reads.
Idle ==
    /\ X_arg = "DataFrame" /\ X_kind = "DataFrame" /\ y_kind = "Series"
    /\ X_data = <<>> /\ y_data = <<>>
    /\ last_index = IntArg(0) /\ first_index = IntArg(0)

RssArgs == {RInt(v) : v \in 0..MaxRss}

InitStat ==
    /\ pc = "statistic_call"
    /\ Idle
    /\ significance = FloatArg(ExampleSignificance)
    /\ verbose = TRUE
    /\ rss_pooled \in RssArgs
    /\ first_rss \in RssArgs
    /\ second_rss \in RssArgs
    /\ k \in 1..MaxK
    /\ n_one \in 0..MaxN
    /\ n_two \in 0..MaxN
    /\ chow_statistic = Unset
    /\ NoSubsets
    /\ NoResult

\* _calculate_chow_statistic(rss_pooled, first_rss, second_rss, k, n_one, n_two)
CallChowStatistic ==
    /\ pc = "statistic_call"
    /\ stats' = stats + 1
    /\ LET r == _calculate_chow_statistic(rss_pooled, first_rss, second_rss,
                                          k, n_one, n_two)
       IN  IF r.err # "" THEN Raise(r.err) /\ chow_value' = chow_value
           ELSE pc' = "returned" /\ err' = err /\ chow_value' = r.value
    /\ UNCHANGED <<X_arg, X_kind, y_kind, X_data, y_data, last_index,
                   first_index, significance, verbose, chow_statistic,
                   rss_pooled, first_rss, second_rss, X_one, X_two, y_one,
                   y_two, k, n_one, n_two, f_cdf, p_value, printed, fits,
                   splits, fevals>>

NextStat == CallChowStatistic

SpecStat == InitStat /\ [][NextStat]_vars

\* Statistics passed to the evaluator: -1, 0, 1/2, 1, 2, ...
StatisticArgs == {RInt(v) : v \in -1..MaxRss} \cup {Rat(1, 2)}

InitSig ==
    /\ pc = "significance_call"
    /\ Idle
    /\ significance \in {FloatArg(v) : v \in AcceptedSignificance}
    /\ verbose \in BOOLEAN
    /\ chow_statistic \in StatisticArgs
    /\ k \in 1..MaxK
    /\ n_one \in 0..MaxN
    /\ n_two \in 0..MaxN
    /\ rss_pooled = Unset /\ first_rss = Unset /\ second_rss = Unset
    /\ NoSubsets
    /\ NoResult

\* _determine_p_value_significance(chow_statistic, n_one, n_two, k,
\*                                 significance, verbose)
CallSignificance ==
    /\ pc = "significance_call"
    /\ \E c \in FCdf(chow_statistic, k, n_one + n_two - 2 * k) :
          LET r == _determine_p_value_significance(chow_statistic, n_one,
                       n_two, k, significance.val, verbose, c)
          IN  /\ f_cdf' = c
              /\ chow_value' = r.chow_statistic
              /\ p_value' = r.p_value
              /\ printed' = r.printed
    /\ fevals' = fevals + 1
    /\ pc' = "returned"
    /\ UNCHANGED <<X_arg, X_kind, y_kind, X_data, y_data, last_index,
                   first_index, significance, verbose, chow_statistic,
                   rss_pooled, first_rss, second_rss, X_one, X_two, y_one,
                   y_two, k, n_one, n_two, err, fits, splits, stats>>

NextSig == CallSignificance

SpecSig == InitSig /\ [][NextSig]_vars

----------------------------------------------------------------------------
(* Properties *)

Terminal == pc \in {"returned", "raised"}
Rows == Len(X_data)
ValidPosition(i) == i.isint /\ 0 <= i.val /\ i.val <= Rows - 1
OutOfRange(i) == i.isint /\ (i.val < 0 \/ i.val >= Rows)
IsProbability(p) == p.kind = "num" /\ 0 <= p.val /\ p.val <= ProbUnit

\* C1 (as claimed; SpecStat): whenever n_one + n_two = 2k, a call of
\* _calculate_chow_statistic returns exactly 0 and raises no error, whatever
\* the three rss values are.
C1_DegenerateGuard ==
    (Terminal /\ n_one + n_two = 2 * k)
        => (pc = "returned" /\ err = "" /\ chow_value = RInt(0))

\* C2 (as claimed; Spec): for 0 <= last_index < first_index <= N-1 the subset
\* before the split is rows 0..last_index, the subset after it is rows
\* first_index..N-1, and with first_index = last_index + 1 no row is left out.
C2_InclusiveSplit ==
    (splits > 0 /\ ValidPosition(last_index) /\ ValidPosition(first_index)
         /\ last_index.val < first_index.val)
        => /\ X_one = SubSeq(X_data, 1, last_index.val + 1)
           /\ y_one = SubSeq(y_data, 1, last_index.val + 1)
           /\ X_two = SubSeq(X_data, first_index.val + 1, Rows)
           /\ y_two = SubSeq(y_data, first_index.val + 1, Rows)
           /\ (first_index.val = last_index.val + 1
                  => Len(X_one) + Len(X_two) = Rows)

\* C3 (as claimed; Spec): a call whose last_index or first_index is an integer
\* outside 0..N-1 never returns a result; it ends in an error.
C3_IndexRange ==
    (OutOfRange(last_index) \/ OutOfRange(first_index))
        => (pc # "returned" /\ (Terminal => err # ""))

\* The arguments chow_test must refuse.
Malformed ==
    \/ y_kind # "Series"
    \/ X_arg \notin {"Series", "DataFrame"}
    \/ ~last_index.isint
    \/ ~first_index.isint
    \/ ~(significance.isfloat /\ significance.val \in {10, 50, 100})

NoWorkDone == fits = 0 /\ splits = 0 /\ stats = 0 /\ fevals = 0

\* C4 (Spec): a call with a malformed argument raises an error before any
\* regression fit, data split, statistic computation or F-distribution
\* evaluation, and a call returns a result only when significance is 0.01,
\* 0.05 or 0.1.
C4_FailFast ==
    /\ Malformed => (pc \in {"validate", "raised"} /\ NoWorkDone)
    /\ (Malformed /\ pc = "raised") => err \in {"TypeError", "KeyError"}
    /\ pc = "returned"
           => (significance.isfloat /\ significance.val \in {10, 50, 100})

\* C4's case: a significance of 0.5, otherwise well-formed arguments, refused.
C4_Witness ==
    /\ pc = "raised" /\ err = "KeyError" /\ NoWorkDone
    /\ significance = FloatArg(500)
    /\ X_arg = "Series" /\ y_kind = "Series"
    /\ last_index.isint /\ first_index.isint

\* C5 (as claimed; Spec): every result carries a p_value that is a number in
\* [0, 1], and f.cdf is only evaluated with positive degrees of freedom
\* k and n_one + n_two - 2k.
C5_PValueBounds ==
    /\ pc = "returned" => IsProbability(p_value)
    /\ fevals > 0 => (k > 0 /\ n_one + n_two - 2 * k > 0)

\* C6 (as claimed; Spec): every result carries a statistic >= 0, whatever
\* split indices the validator accepted.
C6_NonNegativeStatistic == pc = "returned" => RNonNeg(chow_value)

\* C7 (as claimed; SpecSig): with verbose set exactly one verdict is printed,
\* "reject" when p_value <= significance_level and "fail to reject" in every
\* other case; the pair returned is the one a call with the other verbose
\* value returns, and its statistic is the one passed in.
C7_VerdictRule ==
    pc = "returned"
        => /\ verbose => printed = IF p_value.kind = "num"
                                       /\ p_value.val * 1000
                                              <= significance.val * 1024
                                    THEN <<RejectLine>> ELSE <<FailLine>>
           /\ chow_value = chow_statistic
           /\ LET other == _determine_p_value_significance(chow_statistic,
                              n_one, n_two, k, significance.val, ~verbose,
                              f_cdf)
              IN  other.chow_statistic = chow_value
                  /\ other.p_value = p_value

\* The call of line 166 on the data of lines 162-165.
IsExampleCall ==
    /\ X_data = ColumnX(ExampleData) /\ y_data = ColumnY(ExampleData)
    /\ X_arg = "Series" /\ y_kind = "Series"
    /\ last_index = IntArg(ExampleLast)
    /\ first_index = IntArg(ExampleFirst)
    /\ significance = FloatArg(ExampleSignificance)

\* C8 (Spec): the example call passes validation, splits into two non-empty
\* subsets with n_one + n_two - 2k > 0 for k = 2, raises no error at any
\* stage, and returns a statistic >= 0 and a p_value in [0, 1].
C8_WorkedExample ==
    IsExampleCall
        => /\ pc # "raised" /\ err = ""
           /\ splits > 0 => /\ Len(X_one) >= 1 /\ Len(X_two) >= 1
                            /\ Len(X_one) + Len(X_two) - 2 * 2 > 0
           /\ stats > 0 => k = 2
           /\ pc = "returned"
                  => RNonNeg(chow_value) /\ IsProbability(p_value)

\* C8's case: the example call has returned, with the statistic 75/94.
C8_Witness ==
    IsExampleCall /\ pc = "returned" /\ chow_value = <<75, 94>>
        /\ fits = 3 /\ splits = 1 /\ stats = 1 /\ fevals = 1

OtherForm(Xk) == IF Xk = "Series" THEN "DataFrame" ELSE "Series"

\* C9 (Spec): a call with X as a Series and the call with the same data as a
\* one-column DataFrame end the same way: the same error, or the same
\* statistic computed with the same k = 2, n_one and n_two (so f.cdf is asked
\* the same question).
C9_TransparentNormalization ==
    (Terminal /\ X_arg \in {"Series", "DataFrame"})
        => LET other == chow_test(OtherForm(X_arg), X_data, y_kind, y_data,
                                  last_index, first_index, significance)
           IN  /\ err = other.err
               /\ (pc = "raised") = (other.err # "")
               /\ pc = "returned"
                      => /\ chow_value = other.chow_value
                         /\ k = 2 /\ other.k = 2
                         /\ n_one = other.n_one
                         /\ n_two = other.n_two

\* C9's case: a Series X went through the whole pipeline to a positive
\* statistic.
C9_Witness ==
    /\ X_arg = "Series" /\ X_kind = "DataFrame"
    /\ pc = "returned" /\ RPos(chow_value)

\* C10 (SpecStat): when rss_one + rss_two = 0 and n_one + n_two # 2k, so that
\* the denominator is exactly zero, _calculate_chow_statistic returns 0 and
\* raises no error, whatever the pooled rss is.
C10_ZeroDenominator ==
    (Terminal /\ RIsZero(RAdd(first_rss, second_rss))
         /\ n_one + n_two # 2 * k)
        => (pc = "returned" /\ err = "" /\ chow_value = RInt(0))

\* C10's case: both subsets fitted exactly, the pooled fit not, 0 returned.
C10_Witness ==
    /\ pc = "returned" /\ stats = 1
    /\ RIsZero(first_rss) /\ RIsZero(second_rss) /\ RPos(rss_pooled)
    /\ n_one + n_two # 2 * k
    /\ chow_value = RInt(0)

====
